---- MODULE Spec2Model ----
(***************************************************************************)
(* Model of the change-tracking cache of src/test_tracker.py: the fixture  *)
(* files docs/<component>.html, the TSV table test-tracker, the wall clock *)
(* read by datetime.now(), and the processes that call needs_testing,      *)
(* record_test_result and the --list command; of the suite runner of      *)
(* src/test_all.py; of the vision tests of src/test_visual_ai.py and       *)
(* src/test_visual_single.py; and of the structural tests of               *)
(* src/test_structure.py.                                                  *)
(*                                                                         *)
(*   Spec       one caller whose calls each complete before the next      *)
(*              event (section 5 of the design); files and clock change   *)
(*              between the calls.                                         *)
(*   SpecCli    the same caller recording results and running --list.     *)
(*   SpecFlow   the caller's loop: needs_testing, test run, record.       *)
(*   SpecSteps  the same code one library call or file access at a time,  *)
(*              with file changes, a kill of the caller and the queries   *)
(*              of a second process in between.                            *)
(*   SpecIO     the calls by steps with files written, removed and made   *)
(*              unreadable in between.                                     *)
(*   SpecApi    the four functions of the module, called atomically.      *)
(*   SpecFrame  needs_testing and record_test_result, with file and clock *)
(*              changes in between.                                        *)
(*   SpecEdit   the commands and calls on a table other programs edit.    *)
(*   SpecFail   record_test_result and get_test_status with files that     *)
(*              are missing or unreadable.                                 *)
(*   SpecRace   two processes recording results step by step.              *)
(*   SpecRunner one run of test_all.py.                                    *)
(*   SpecRunnerFair  the same run, every step of which is eventually taken.*)
(*   SpecVisual one run of test_visual_ai.py or test_visual_single.py.     *)
(*   SpecComponent   test_visual_ai.py with one screenshot and every       *)
(*              answer of the API.                                         *)
(*   SpecLabels test_component of test_structure.py on form elements.      *)
(*   SpecHeadings    the same on headings.                                 *)
(*                                                                         *)
(* ret is what the step just taken returned to its caller; a step that     *)
(* returns nothing clears it.                                              *)
(***************************************************************************)
EXTENDS Integers, Sequences, FiniteSets, TLC

\* ---------------------------------------------------------------- bounds
NContents == 2      \* distinct byte contents a fixture file can take
MaxTime   == 2      \* readings of the wall clock: 0..MaxTime
MaxIssues == 0      \* issues_count arguments: 0..MaxIssues
MaxReturnCode == 1  \* return codes of a test suite's process: 0..MaxReturnCode
NPages    == 2      \* pages of COMPONENT_PAGES the vision tests go through
MaxInputs == 2      \* form elements of a page
MaxHeadings == 3    \* headings of a page

\* ------------------------------------------------------ program constants
HexLen    == 64     \* characters of sha256.hexdigest()
PrefixLen == 8      \* stored_hash[:8], current_hash[:8]
NoFile    == 0      \* docs/<component>.html does not exist

Component == {"a", "b"}
Procs     == {"p1", "p2"}
Caller    == "p1"
Observer  == "p2"
Content   == 1..NContents
Time      == 0..MaxTime
IssueArg  == 0..MaxIssues
None      == <<>>

VARIABLES
    files,      \* files[c]: content of docs/<c>.html, or NoFile
    store,      \* rows of test-results/test-tracker.tsv, in file order
    clock,      \* what datetime.now() returns now
    pc,         \* pc[p]: where process p is inside the function it runs
    loc,        \* loc[p]: the local variables of the function p runs
    ret,        \* what the step just taken returned to its caller (NoRet: nothing)
    stable,     \* stable[p]: the file of p's call is as it was when the call began
    fresh,      \* fresh[c]: c's file is as the last successful record call read it
    flow,       \* flow[p]: where p is in the loop ask, test, record, and what it tested
    runner,     \* the test_all.py process: sys.argv, its TestRunner and its children
    visual,     \* the test_visual_ai.py / test_visual_single.py process and its VisualAIAnalyzer
    tester      \* the page given to StructuralTester.test_component, and what it returned

vars == <<files, store, clock, pc, loc, ret, stable, fresh, flow, runner, visual, tester>>
tracker == <<files, store, clock, pc, loc, ret, stable, fresh, flow>>

\* ------------------------------------------------------------ conversions
\* hashlib.sha256(...).hexdigest(): a fixed function from contents to
\* strings of HexLen hex digits (digits as 0..15).  Distinct contents get
\* distinct digests; contents 1 and 2 agree on their first PrefixLen digits.
sha256 ==
    [b \in Content |->
        [i \in 1..HexLen |->
            IF i <= PrefixLen THEN (b \div 3) % 16
            ELSE IF i = PrefixLen + 1 THEN b % 3
            ELSE (b + i) % 16]]

Digest(b) == sha256[b]

\* os.path.exists(file_path) and open(file_path, 'rb'): a file that is there
\* can be opened unless its mode forbids reading (files[c] < 0 is content
\* -files[c] with the read permission taken away).
Exists(c)   == files[c] # NoFile
Readable(c) == files[c] > NoFile

\* The exception open() raises.
OpenError(c) == IF Exists(c) THEN "PermissionError" ELSE "FileNotFoundError"

\* A fingerprint taken of the path, not of the bytes read.
get_file_hash_OfPath(c) ==
    [raised |-> files[c] = NoFile, hash |-> Digest(IF c = "a" THEN 1 ELSE 2)]

\* A failed open answered with a digest all the same.
get_file_hash_Swallowed(c) ==
    [raised |-> FALSE, hash |-> Digest(IF Readable(c) THEN files[c] ELSE 1)]

\* get_file_hash(file_path): the digest of the bytes read, or the error
\* open() raises for a missing or unreadable file.
get_file_hash(c) ==
    IF ~Readable(c)
    THEN [raised |-> TRUE,  hash |-> <<>>]
    ELSE [raised |-> FALSE, hash |-> Digest(files[c])]

\* str(issues_count): decimal digits, most significant first.
RECURSIVE Str(_)
Str(n) ==
    LET digit == <<"0", "1", "2", "3", "4", "5", "6", "7", "8", "9">>[(n % 10) + 1]
    IN  IF n < 10 THEN <<digit>> ELSE Append(Str(n \div 10), digit)

\* "true" if passed else "false"
PassedStr(passed) == IF passed THEN "true" ELSE "false"

\* datetime.now(): the wall clock's reading.  The reading that follows is a
\* later one unless the clock was set back in between.
now == clock

\* ------------------------------------------------------------- the table
Matching(s, c) == SelectSeq(s, LAMBDA r : r.component = c)

\* A query that forgets its filter.
query_one_AnyComponent(s, c) == IF s = <<>> THEN None ELSE <<s[1]>>

\* db.query_one(component=c): the first matching row, or None.
query_one(s, c) ==
    LET m == Matching(s, c) IN IF m = <<>> THEN None ELSE <<m[1]>>

\* A delete that forgets its filter.
delete_Unfiltered(s, c) == <<>>

\* db.delete(component=c): every matching row is removed.
delete(s, c) == SelectSeq(s, LAMBDA r : r.component # c)

\* db.insert(row): the row is appended.
insert(s, row) == Append(s, row)

\* The flag stored as str(passed) gives "True" and "False".
NewRow_StrOfBool(c, file_hash, timestamp, passed, issues_count) ==
    [component    |-> c,
     file_hash    |-> file_hash,
     last_tested  |-> timestamp,
     passed       |-> IF passed THEN "True" ELSE "False",
     issues_count |-> Str(issues_count)]

\* The row record_test_result builds (lines 61-67).
NewRow(c, file_hash, timestamp, passed, issues_count) ==
    [component    |-> c,
     file_hash    |-> file_hash,
     last_tested  |-> timestamp,
     passed       |-> PassedStr(passed),
     issues_count |-> Str(issues_count)]

Count(c) == Len(Matching(store, c))

\* ------------------------------------------------------------ needs_testing
\* The comparison turned round.
Decide_Inverted(current_hash, result) ==
    IF result = None
    THEN <<TRUE, <<"never tested">>>>
    ELSE LET stored_hash == result[1].file_hash IN
         IF current_hash = stored_hash
         THEN <<TRUE, <<"file changed (was ", SubSeq(stored_hash, 1, PrefixLen),
                        "..., now ", SubSeq(current_hash, 1, PrefixLen), "...)">>>>
         ELSE <<FALSE, <<"unchanged since ", result[1].last_tested>>>>

\* The comparison made on the truncated digests of the message.
Decide_PrefixCompare(current_hash, result) ==
    IF result = None
    THEN <<TRUE, <<"never tested">>>>
    ELSE LET stored_hash == result[1].file_hash IN
         IF SubSeq(current_hash, 1, PrefixLen) # SubSeq(stored_hash, 1, PrefixLen)
         THEN <<TRUE, <<"file changed (was ", SubSeq(stored_hash, 1, PrefixLen),
                        "..., now ", SubSeq(current_hash, 1, PrefixLen), "...)">>>>
         ELSE <<FALSE, <<"unchanged since ", result[1].last_tested>>>>

\* Lines 39-47: the decision once the file was hashed and the table queried.
Decide(current_hash, result) ==
    IF result = None
    THEN <<TRUE, <<"never tested">>>>
    ELSE LET stored_hash == result[1].file_hash IN
         IF current_hash # stored_hash
         THEN <<TRUE, <<"file changed (was ", SubSeq(stored_hash, 1, PrefixLen),
                        "..., now ", SubSeq(current_hash, 1, PrefixLen), "...)">>>>
         ELSE <<FALSE, <<"unchanged since ", result[1].last_tested>>>>

\* ------------------------------------------------------------ process state
NoLoc == [component |-> "a", hash |-> <<>>, timestamp |-> 0,
          passed |-> FALSE, issues_count |-> 0, existing |-> None]

NoFlow == [phase |-> "none", comp |-> "a", bytes |-> NoFile]

NoRet == [proc |-> Caller, op |-> "none", comp |-> "a", kind |-> "none",
          val |-> <<>>, note |-> "none"]

Value(p, op, c, v, note) ==
    [proc |-> p, op |-> op, comp |-> c, kind |-> "value", val |-> v, note |-> note]
Raised(p, op, c, e) ==
    [proc |-> p, op |-> op, comp |-> c, kind |-> "raised", val |-> <<e>>, note |-> "none"]

\* test_all.py before it is started: TestRunner's results are {} (line 21).
\* codes are the return codes of the suites' processes, in the order they
\* ended.
NoRunner == [argv |-> {}, pc |-> "idle", at |-> 1, running |-> {}, results |-> <<>>,
             codes |-> <<>>, all_passed |-> TRUE, summary |-> <<>>, exit |-> <<>>]

\* test_visual_ai.py before it is started: VisualAIAnalyzer's results are
\* [] (line 125) and the instance has no attribute COMPONENT_PAGES.
\* script and argv are the command that was run, shots the pages whose
\* screenshot exists when the tests begin, error the exception that ended
\* the process.
NoVisual == [pc |-> "idle", script |-> "none", argv |-> <<>>, api_key |-> FALSE,
             shots |-> {}, at |-> 1,
             analyses |-> <<>>, results |-> <<>>, attribute |-> <<>>, report |-> <<>>,
             exit |-> <<>>, error |-> "none"]

\* No page has been given to StructuralTester.test_component.
\* page is the document the browser has loaded: its elements in document
\* order and the ids its label elements name in their for attribute.
NoTester == [page |-> [elements |-> <<>>, labels |-> {}], result |-> <<>>]

Init ==
    /\ runner = NoRunner
    /\ visual = NoVisual
    /\ tester = NoTester
    /\ files  \in [Component -> Content \cup {NoFile}]
    /\ store  = <<>>
    /\ clock  \in Time
    /\ pc     = [p \in Procs |-> "idle"]
    /\ loc    = [p \in Procs |-> NoLoc]
    /\ ret    = NoRet
    /\ stable = [p \in Procs |-> FALSE]
    /\ fresh  = [c \in Component |-> FALSE]
    /\ flow   = [p \in Procs |-> NoFlow]

\* ------------------------------------------------- calls that run to the end
\* The table consulted before the existence check.
needs_testing_TableFirst(c) ==
    IF query_one(store, c) = None
    THEN <<TRUE, <<"never tested">>>>
    ELSE IF files[c] = NoFile
    THEN <<FALSE, <<"file not found">>>>
    ELSE Decide(get_file_hash(c).hash, query_one(store, c))

\* A decision that takes every write of the file since the last record
\* for a change.
needs_testing_ByModification(c) ==
    IF files[c] = NoFile
    THEN <<FALSE, <<"file not found">>>>
    ELSE IF query_one(store, c) # None /\ ~fresh[c]
    THEN <<TRUE, <<"file changed (was ",
                   SubSeq(query_one(store, c)[1].file_hash, 1, PrefixLen), "..., now ",
                   SubSeq(get_file_hash(c).hash, 1, PrefixLen), "...)">>>>
    ELSE Decide(get_file_hash(c).hash, query_one(store, c))

\* needs_testing(c), lines 27-47.
needs_testing(c) ==
    IF files[c] = NoFile
    THEN <<FALSE, <<"file not found">>>>
    ELSE Decide(get_file_hash(c).hash, query_one(store, c))

\* An insert without the delete.
Upsert_InsertOnly(s, row) == insert(s, row)

\* record_test_result, lines 55-67: the table after the delete and the insert.
Upsert(s, row) ==
    LET existing == query_one(s, row.component) IN
    insert(IF existing # None THEN delete(s, row.component) ELSE s, row)

\* What a record call did to the row it found: nothing there, the same
\* result again, or another result.
Replaced(existing, row) ==
    IF existing = None THEN "first"
    ELSE IF /\ existing[1].file_hash = row.file_hash
            /\ existing[1].passed = row.passed
            /\ existing[1].issues_count = row.issues_count
         THEN "same" ELSE "other"

\* list_all_status(), lines 73-78: db.all() read the table (ok) or raised.
list_all_status(ok) == IF ok THEN store ELSE <<>>

\* The glyph chosen by comparing with Python's str(True).
ListLine_CapitalTrue(status) ==
    <<IF status.passed = "True" THEN "pass" ELSE "fail",
      status.component, status.issues_count, status.last_tested>>

\* The --list command, lines 88-96: one line per status, and the exit code.
ListLine(status) ==
    <<IF status.passed = "true" THEN "pass" ELSE "fail",
      status.component, status.issues_count, status.last_tested>>

MainList(ok) ==
    LET statuses == list_all_status(ok) IN
    [exit |-> 0,
     out  |-> IF statuses = <<>> THEN <<<<"No components tested yet.">>>>
              ELSE [i \in 1..Len(statuses) |-> ListLine(statuses[i])]]

\* get_test_status(c), lines 69-71.
get_test_status(c) == query_one(store, c)

\* The answer printed for one status by line 107.
LastResult(status) ==
    <<"Last result", IF status.passed = "true" THEN "PASSED" ELSE "FAILED",
      status.issues_count>>

\* An exit code that tells the caller's script whether to test.
MainComponent_ExitByAnswer(c) ==
    [exit |-> IF needs_testing(c)[1] THEN 1 ELSE 0,
     out  |-> <<<<IF needs_testing(c)[1] THEN "needs testing" ELSE "does not need testing",
                  c, needs_testing(c)[2]>>>>]

\* The <component> command, lines 97-107: what it prints, and the exit
\* code of a script that ran to its end.
MainComponent(c) ==
    LET answer == needs_testing(c)
        needs_test == answer[1]
        reason == answer[2]
        status == get_test_status(c) IN
    [exit |-> 0,
     out  |-> IF needs_test
              THEN <<<<"needs testing", c, reason>>>>
              ELSE <<<<"does not need testing", c, reason>>>>
                   \o (IF status # None THEN <<LastResult(status[1])>> ELSE <<>>)]

\* The interpreter's exit for an exception nobody caught.
Traceback == [exit |-> 1, out |-> <<>>]

\* A query that drops the row of a file that is gone.
NeedsTestingRun_Evicting(p, c) ==
    /\ pc[p] = "idle"
    /\ ret' = Value(p, "needs_testing", c,
                    IF Readable(c) THEN needs_testing(c)
                    ELSE <<FALSE, <<"file not found">>>>, "none")
    /\ store' = IF Exists(c) THEN store ELSE delete(store, c)
    /\ UNCHANGED <<files, clock, pc, loc, stable, fresh, runner, visual, tester>>

NeedsTestingRun(p, c) ==
    /\ pc[p] = "idle"
    /\ ret' = IF Exists(c) /\ get_file_hash(c).raised
              THEN Raised(p, "needs_testing", c, OpenError(c))
              ELSE Value(p, "needs_testing", c, needs_testing(c), "none")
    /\ UNCHANGED <<files, store, clock, pc, loc, stable, fresh, runner, visual, tester>>

\* A record call that removes the old row before it reads the file.
RecordTestResultRun_DeleteFirst(p, c, passed, n) ==
    /\ pc[p] = "idle"
    /\ clock < MaxTime
    /\ LET h == get_file_hash(c)
           row == NewRow(c, h.hash, now, passed, n) IN
       IF h.raised
       THEN /\ ret' = Raised(p, "record_test_result", c, OpenError(c))
            /\ store' = delete(store, c)
            /\ UNCHANGED <<fresh, clock>>
       ELSE /\ store' = Upsert(store, row)
            /\ ret' = Value(p, "record_test_result", c, <<>>,
                            Replaced(query_one(store, c), row))
            /\ fresh' = [fresh EXCEPT ![c] = TRUE]
            /\ clock' = clock + 1
    /\ UNCHANGED <<files, pc, loc, stable, runner, visual, tester>>

RecordTestResultRun(p, c, passed, n) ==
    /\ pc[p] = "idle"
    /\ clock < MaxTime
    /\ LET h == get_file_hash(c)
           row == NewRow(c, h.hash, now, passed, n) IN
       IF h.raised
       THEN /\ ret' = Raised(p, "record_test_result", c, OpenError(c))
            /\ UNCHANGED <<store, fresh, clock>>
       ELSE /\ store' = Upsert(store, row)
            /\ ret' = Value(p, "record_test_result", c, <<>>,
                            Replaced(query_one(store, c), row))
            /\ fresh' = [fresh EXCEPT ![c] = TRUE]
            /\ clock' = clock + 1
    /\ UNCHANGED <<files, pc, loc, stable, runner, visual, tester>>

NeedsTesting(p, c) == NeedsTestingRun(p, c) /\ UNCHANGED flow

RecordTestResult(p, c, passed, n) == RecordTestResultRun(p, c, passed, n) /\ UNCHANGED flow

\* get_test_status(c) called from another module.
GetTestStatus(p, c) ==
    /\ pc[p] = "idle"
    /\ ret' = Value(p, "get_test_status", c, get_test_status(c), "none")
    /\ UNCHANGED <<files, store, clock, pc, loc, stable, fresh, flow, runner, visual, tester>>

\* list_all_status() called from another module.
ListAllStatus(p, ok) ==
    /\ pc[p] = "idle"
    /\ ret' = Value(p, "list_all_status", "a", list_all_status(ok),
                    IF ok THEN "none" ELSE "store_read_failed")
    /\ UNCHANGED <<files, store, clock, pc, loc, stable, fresh, flow, runner, visual, tester>>

\* python3 test_tracker.py --list
CliList(p, ok) ==
    /\ pc[p] = "idle"
    /\ ret' = Value(p, "cli_list", "a", MainList(ok),
                    IF ok THEN "none" ELSE "store_read_failed")
    /\ UNCHANGED <<files, store, clock, pc, loc, stable, fresh, flow, runner, visual, tester>>

\* python3 test_tracker.py <component>
CliComponent(p, c) ==
    /\ pc[p] = "idle"
    /\ ret' = IF Exists(c) /\ get_file_hash(c).raised
              THEN Value(p, "cli_component", c, Traceback, OpenError(c))
              ELSE Value(p, "cli_component", c, MainComponent(c), "none")
    /\ UNCHANGED <<files, store, clock, pc, loc, stable, fresh, flow, runner, visual, tester>>

\* --------------------------------------------- the caller's loop (section 2)
\* "does fixture c need testing?"
FlowAsk(p, c) ==
    /\ flow[p].phase \in {"none", "recorded"}
    /\ NeedsTestingRun(p, c)
    /\ flow' = [flow EXCEPT ![p] =
                  IF needs_testing(c)[1] THEN [NoFlow EXCEPT !.phase = "asked", !.comp = c]
                  ELSE NoFlow]

\* The test run reads the fixture as it is now.
FlowTest(p) ==
    /\ flow[p].phase = "asked"
    /\ flow' = [flow EXCEPT ![p] =
                  IF files[flow[p].comp] = NoFile THEN NoFlow
                  ELSE [flow[p] EXCEPT !.phase = "tested", !.bytes = files[flow[p].comp]]]
    /\ ret' = NoRet
    /\ UNCHANGED <<files, store, clock, pc, loc, stable, fresh, runner, visual, tester>>

\* "After a test run, the caller tells the Store to upsert a new record".
FlowRecord(p, passed, n) ==
    /\ flow[p].phase = "tested"
    /\ RecordTestResultRun(p, flow[p].comp, passed, n)
    /\ flow' = [flow EXCEPT ![p].phase = "recorded"]

\* ------------------------------------------------- the same calls, by steps
\* needs_testing(c), lines 29-32: the existence check.
NeedsTestingCall(p, c) ==
    /\ pc[p] = "idle"
    /\ loc' = [loc EXCEPT ![p] = [NoLoc EXCEPT !.component = c]]
    /\ stable' = [stable EXCEPT ![p] = TRUE]
    /\ IF files[c] = NoFile
       THEN /\ ret' = Value(p, "needs_testing", c, <<FALSE, <<"file not found">>>>, "none")
            /\ pc' = pc
       ELSE /\ ret' = NoRet
            /\ pc' = [pc EXCEPT ![p] = "nt_hash"]
    /\ UNCHANGED <<files, store, clock, fresh, flow, runner, visual, tester>>

\* needs_testing, line 34: current_hash = get_file_hash(file_path).
NeedsTestingHash(p) ==
    /\ pc[p] = "nt_hash"
    /\ LET c == loc[p].component
           h == get_file_hash(c) IN
       IF h.raised
       THEN /\ ret' = Raised(p, "needs_testing", c, OpenError(c))
            /\ pc' = [pc EXCEPT ![p] = "idle"]
            /\ loc' = [loc EXCEPT ![p] = [NoLoc EXCEPT !.component = c]]
       ELSE /\ loc' = [loc EXCEPT ![p].hash = h.hash]
            /\ pc' = [pc EXCEPT ![p] = "nt_query"]
            /\ ret' = NoRet
    /\ UNCHANGED <<files, store, clock, stable, fresh, flow, runner, visual, tester>>

\* needs_testing, lines 37-47: the query and the decision.
NeedsTestingQuery(p) ==
    /\ pc[p] = "nt_query"
    /\ LET c == loc[p].component
           result == query_one(store, c) IN
       /\ loc' = [loc EXCEPT ![p] = [NoLoc EXCEPT !.component = c]]
       /\ ret' = Value(p, "needs_testing", c, Decide(loc[p].hash, result), "none")
    /\ pc' = [pc EXCEPT ![p] = "idle"]
    /\ UNCHANGED <<files, store, clock, stable, fresh, flow, runner, visual, tester>>

\* record_test_result(c, passed, issues_count), lines 51-53.
RecordCall(p, c, passed, n) ==
    /\ pc[p] = "idle"
    /\ clock < MaxTime
    /\ stable' = [stable EXCEPT ![p] = TRUE]
    /\ LET h == get_file_hash(c) IN
       IF h.raised
       THEN /\ ret' = Raised(p, "record_test_result", c, OpenError(c))
            /\ loc' = [loc EXCEPT ![p] = [NoLoc EXCEPT !.component = c]]
            /\ UNCHANGED <<pc, clock>>
       ELSE /\ loc' = [loc EXCEPT ![p] =
                        [NoLoc EXCEPT !.component = c, !.hash = h.hash, !.timestamp = now,
                                      !.passed = passed, !.issues_count = n]]
            /\ ret' = NoRet
            /\ pc' = [pc EXCEPT ![p] = "rec_query"]
            /\ clock' = clock + 1
    /\ UNCHANGED <<files, store, fresh, flow, runner, visual, tester>>

\* record_test_result, lines 56-57: existing = db.query_one(...).
RecordQuery(p) ==
    /\ pc[p] = "rec_query"
    /\ LET existing == query_one(store, loc[p].component) IN
       /\ loc' = [loc EXCEPT ![p].existing = existing]
       /\ pc' = [pc EXCEPT ![p] = IF existing # None THEN "rec_delete" ELSE "rec_insert"]
    /\ ret' = NoRet
    /\ UNCHANGED <<files, store, clock, stable, fresh, flow, runner, visual, tester>>

\* record_test_result, line 58: db.delete(component=component_name).
RecordDelete(p) ==
    /\ pc[p] = "rec_delete"
    /\ store' = delete(store, loc[p].component)
    /\ pc' = [pc EXCEPT ![p] = "rec_insert"]
    /\ ret' = NoRet
    /\ UNCHANGED <<files, clock, loc, stable, fresh, flow, runner, visual, tester>>

\* record_test_result, lines 61-67: db.insert({...}) and the return.
RecordInsert(p) ==
    /\ pc[p] = "rec_insert"
    /\ LET l == loc[p]
           row == NewRow(l.component, l.hash, l.timestamp, l.passed, l.issues_count) IN
       /\ store' = insert(store, row)
       /\ ret' = Value(p, "record_test_result", l.component, <<>>, Replaced(l.existing, row))
       /\ fresh' = [fresh EXCEPT ![l.component] = stable[p]]
       /\ loc' = [loc EXCEPT ![p] = [NoLoc EXCEPT !.component = l.component]]
    /\ pc' = [pc EXCEPT ![p] = "idle"]
    /\ UNCHANGED <<files, clock, stable, flow, runner, visual, tester>>

\* The process is killed inside a call (SIGKILL, power loss): it never
\* takes its next step.
Kill(p) ==
    /\ pc[p] # "idle"
    /\ pc' = [pc EXCEPT ![p] = "idle"]
    /\ loc' = [loc EXCEPT ![p] = [NoLoc EXCEPT !.component = loc[p].component]]
    /\ ret' = NoRet
    /\ UNCHANGED <<files, store, clock, stable, fresh, flow, runner, visual, tester>>

\* ------------------------------------------------------------ environment
Touch(c) ==
    /\ stable' = [p \in Procs |-> stable[p] /\ loc[p].component # c]
    /\ fresh' = [fresh EXCEPT ![c] = FALSE]
    /\ ret' = NoRet

\* Another program writes docs/<c>.html.
WriteFile(c, b) ==
    /\ files[c] # b
    /\ files' = [files EXCEPT ![c] = b]
    /\ Touch(c)
    /\ UNCHANGED <<store, clock, pc, loc, flow, runner, visual, tester>>

\* Another program removes docs/<c>.html.
DeleteFile(c) ==
    /\ files[c] # NoFile
    /\ files' = [files EXCEPT ![c] = NoFile]
    /\ Touch(c)
    /\ UNCHANGED <<store, clock, pc, loc, flow, runner, visual, tester>>

\* Another program takes the read permission of docs/<c>.html away, or
\* gives it back; the bytes stay.
Chmod(c) ==
    /\ Exists(c)
    /\ files' = [files EXCEPT ![c] = -files[c]]
    /\ ret' = NoRet
    /\ UNCHANGED <<store, clock, pc, loc, stable, fresh, flow, runner, visual, tester>>

\* Another program, or a hand edit, leaves in test-tracker.tsv a row whose
\* passed cell is neither "true" nor "false".
EditRow(i, cell) ==
    /\ i \in 1..Len(store)
    /\ store[i].passed # cell
    /\ store' = [store EXCEPT ![i].passed = cell]
    /\ ret' = NoRet
    /\ UNCHANGED <<files, clock, pc, loc, stable, fresh, flow, runner, visual, tester>>

\* Time passes.
Tick ==
    /\ clock < MaxTime
    /\ clock' = clock + 1
    /\ ret' = NoRet
    /\ UNCHANGED <<files, store, pc, loc, stable, fresh, flow, runner, visual, tester>>

\* The wall clock is set back: datetime.now() is naive local time, which
\* an administrator, a clock synchronisation or the end of daylight saving
\* time moves back.
ClockSetBack ==
    /\ clock > 0
    /\ clock' = clock - 1
    /\ ret' = NoRet
    /\ UNCHANGED <<files, store, pc, loc, stable, fresh, flow, runner, visual, tester>>

FileEnv ==
    \/ \E c \in Component, b \in Content : WriteFile(c, b)
    \/ \E c \in Component : DeleteFile(c)

ClockEnv ==
    \/ Tick
    \/ ClockSetBack

\* ------------------------------------------------------------ test_all.py
Flag == {"--fast", "--skip-vision", "--spatial"}

\* The statements of run_all in the order they are written, the suites of
\* tiers 3 and 4 exchanged.
Suite_SpatialBeforeVision ==
    <<"Structural Tests", "Integration Tests",
      "Voice Command Tests", "Context Tests (Mobile/Tablet/Desktop)", "Gesture Tests",
      "Attention Budget Tests", "Performance Tests",
      "Spatial Context Tests (AR/VR)", "Visual Accessibility Tests">>

\* The run_test statements of run_all in the order they are written
\* (lines 47-117).
Suite ==
    <<"Structural Tests", "Integration Tests",
      "Voice Command Tests", "Context Tests (Mobile/Tablet/Desktop)", "Gesture Tests",
      "Attention Budget Tests", "Performance Tests",
      "Visual Accessibility Tests", "Spatial Context Tests (AR/VR)">>

\* The tier whose block of run_all holds the suite (lines 45, 61, 99, 109).
TierOf ==
    [name \in {Suite[i] : i \in DOMAIN Suite} |->
        CASE name \in {"Structural Tests", "Integration Tests"} -> 1
          [] name = "Visual Accessibility Tests" -> 3
          [] name = "Spatial Context Tests (AR/VR)" -> 4
          [] OTHER -> 2]

\* A vision tier that --skip-vision does not switch off.
TierRuns_VisionUnlessFast(tier, argv) ==
    CASE tier = 1 -> TRUE
      [] tier = 2 -> "--fast" \notin argv
      [] tier = 3 -> "--fast" \notin argv
      [] tier = 4 -> "--spatial" \in argv

\* The conditions of lines 62, 100 and 110; tier 1 has none.
TierRuns(tier, argv) ==
    CASE tier = 1 -> TRUE
      [] tier = 2 -> "--fast" \notin argv
      [] tier = 3 -> "--skip-vision" \notin argv /\ "--fast" \notin argv
      [] tier = 4 -> "--spatial" \in argv

\* The run_test statements from statement k on that run_all reaches.
Reached(k, argv) ==
    {i \in k..Len(Suite) : TierRuns(TierOf[Suite[i]], argv)}

Min(S) == CHOOSE i \in S : \A j \in S : i <= j

\* python3 test_all.py <args>: lines 156-158 up to the first statement of
\* run_all.
Launch(args) ==
    /\ runner.pc = "idle"
    /\ runner' = [NoRunner EXCEPT !.argv = args, !.pc = "run_all"]
    /\ UNCHANGED <<tracker, visual, tester>>

\* A runner that goes on to the next suite only while all have passed.
RunTestStart_StopOnFailure ==
    /\ runner.pc = "run_all"
    /\ runner.all_passed
    /\ Reached(runner.at, runner.argv) # {}
    /\ LET i == Min(Reached(runner.at, runner.argv)) IN
       runner' = [runner EXCEPT !.at = i, !.pc = "run_test",
                                !.running = runner.running \cup {Suite[i]}]
    /\ UNCHANGED <<tracker, visual, tester>>

\* run_test, lines 23-31: subprocess.run starts the suite's process.
RunTestStart ==
    /\ runner.pc = "run_all"
    /\ Reached(runner.at, runner.argv) # {}
    /\ LET i == Min(Reached(runner.at, runner.argv)) IN
       runner' = [runner EXCEPT !.at = i, !.pc = "run_test",
                                !.running = runner.running \cup {Suite[i]}]
    /\ UNCHANGED <<tracker, visual, tester>>

\* A runner whose all_passed is the outcome of the last suite.
RunTestEnd_LastWins(returncode) ==
    /\ runner.pc = "run_test"
    /\ LET name == Suite[runner.at]
           passed == (returncode = 0) IN
       runner' = [runner EXCEPT !.running = runner.running \ {name},
                                !.results = Append(runner.results,
                                                   [name |-> name, passed |-> passed]),
                                !.codes = Append(runner.codes, returncode),
                                !.all_passed = passed,
                                !.at = runner.at + 1,
                                !.pc = "run_all"]
    /\ UNCHANGED <<tracker, visual, tester>>

\* run_test, lines 31-39: the suite's process has ended with returncode;
\* the result is stored, and lines 51, 58, ... clear all_passed.
RunTestEnd(returncode) ==
    /\ runner.pc = "run_test"
    /\ LET name == Suite[runner.at]
           passed == (returncode = 0) IN
       runner' = [runner EXCEPT !.running = runner.running \ {name},
                                !.results = Append(runner.results,
                                                   [name |-> name, passed |-> passed]),
                                !.codes = Append(runner.codes, returncode),
                                !.all_passed = runner.all_passed /\ passed,
                                !.at = runner.at + 1,
                                !.pc = "run_all"]
    /\ UNCHANGED <<tracker, visual, tester>>

\* print_summary, lines 124-141, and the return of run_all (line 122).
PrintSummary ==
    /\ runner.pc = "run_all"
    /\ Reached(runner.at, runner.argv) = {}
    /\ runner' = [runner EXCEPT
                    !.summary = <<Len(SelectSeq(runner.results, LAMBDA r : r.passed)),
                                  Len(runner.results)>>,
                    !.pc = "returned"]
    /\ UNCHANGED <<tracker, visual, tester>>

\* sys.exit(0 if success else 1), line 159.
Exit ==
    /\ runner.pc = "returned"
    /\ runner' = [runner EXCEPT !.exit = <<IF runner.all_passed THEN 0 ELSE 1>>,
                                !.pc = "exited"]
    /\ UNCHANGED <<tracker, visual, tester>>

\* ------------------------------------- test_visual_ai.py, test_visual_single.py
\* A file name is the sequence of its stem and its suffix.
COMPONENT_PAGES ==
    <<<<"semantic-action", ".html">>, <<"semantic-card", ".html">>,
      <<"semantic-input", ".html">>, <<"semantic-modal", ".html">>,
      <<"semantic-navigator", ".html">>, <<"semantic-list", ".html">>,
      <<"semantic-menu", ".html">>, <<"semantic-feedback", ".html">>,
      <<"semantic-adjuster", ".html">>>>

\* The pages the loop of run_all goes through.
Pages == SubSeq(COMPONENT_PAGES, 1, NPages)

\* The analyses of test_component in the order they are made (lines 237-240).
Analysis == <<"contrast", "visual_feedback", "affordance", "state_differentiation">>

\* What the vision API answers: the lines of message.content[0].text.
\* [fence] stands for the three backquotes of a markdown code fence.
ResponseText ==
    [passed_true        |-> <<"{passed: true, issues: []}">>,
     passed_false       |-> <<"{passed: false, issues: [{problem}]}">>,
     no_passed_key      |-> <<"{issues: []}">>,
     fenced_passed_true |-> <<"[fence]json", "{passed: true, issues: []}", "[fence]">>,
     not_json           |-> <<"I cannot analyze this image.">>]

\* json.loads of the texts that are JSON; a dict without the key 'passed'
\* has passed = <<>>.
json_loads ==
    [t \in {"{passed: true, issues: []}", "{passed: false, issues: [{problem}]}",
            "{issues: []}"} |->
        CASE t = "{passed: true, issues: []}" -> [passed |-> <<TRUE>>, issues |-> <<>>]
          [] t = "{passed: false, issues: [{problem}]}" ->
                [passed |-> <<FALSE>>, issues |-> <<[problem |-> "low contrast"]>>]
          [] OTHER -> [passed |-> <<>>, issues |-> <<>>]]

\* Line 223: the value returned for an exception.
Failure(e) == [passed |-> <<FALSE>>, issues |-> <<[error |-> e]>>]

\* An analyze_image whose API call is outside the try block.
analyze_image_Unguarded(outcome) ==
    IF outcome \in {"image_unreadable", "api_error"}
    THEN [raised |-> TRUE, value |-> Failure(outcome)]
    ELSE LET text == ResponseText[outcome]
             stripped == IF text[1] = "[fence]json"
                         THEN SubSeq(text, 2, Len(text) - 1) ELSE text IN
         [raised |-> FALSE,
          value  |-> IF Len(stripped) = 1 /\ stripped[1] \in DOMAIN json_loads
                     THEN json_loads[stripped[1]]
                     ELSE Failure("JSONDecodeError")]

\* analyze_image, lines 177-223.  encode_image (line 182) is outside the
\* try block; the API call, the removal of a markdown fence (lines 213-216)
\* and json.loads are inside it.
analyze_image(outcome) ==
    IF outcome = "image_unreadable"
    THEN [raised |-> TRUE, value |-> Failure("PermissionError")]
    ELSE IF outcome = "api_error"
    THEN [raised |-> FALSE, value |-> Failure("APIError")]
    ELSE LET text == ResponseText[outcome]
             stripped == IF text[1] = "[fence]json"
                         THEN SubSeq(text, 2, Len(text) - 1) ELSE text IN
         [raised |-> FALSE,
          value  |-> IF Len(stripped) = 1 /\ stripped[1] \in DOMAIN json_loads
                     THEN json_loads[stripped[1]]
                     ELSE Failure("JSONDecodeError")]

\* A lookup whose default counts a missing key as a pass.
Get_DefaultTrue(result) == IF result.passed = <<>> THEN TRUE ELSE result.passed[1]

\* result.get('passed', False)
Get(result) == IF result.passed = <<>> THEN FALSE ELSE result.passed[1]

\* Lines 243-259: the result test_component compiles.  The timestamp is
\* left out; the scripts are run in their directory, where
\* screenshot_path.relative_to(Path.cwd()) is defined.
Compiled(component_page, analyses) ==
    [component  |-> component_page[1],
     screenshot |-> <<"screenshots", component_page[1], component_page[2], ".png">>,
     tests      |-> [name \in {Analysis[k] : k \in DOMAIN Analysis} |->
                        analyses[CHOOSE k \in DOMAIN Analysis : Analysis[k] = name]],
     passed     |-> \A k \in DOMAIN Analysis : Get(analyses[k])]

\* test_visual_ai.py with an API key (lines 474-494) up to the loop of
\* run_all: shots are the pages capture_screenshots left a screenshot of.
VisualMain(shots) ==
    /\ visual.pc = "idle"
    /\ visual' = [visual EXCEPT !.pc = "run_all", !.script = "test_visual_ai.py",
                                !.api_key = TRUE, !.shots = shots]
    /\ UNCHANGED <<tracker, runner, tester>>

\* test_component up to its analyses, lines 225-234: a page without a
\* screenshot returns None and the loop goes on.
TestComponent ==
    /\ visual.pc = "run_all"
    /\ visual.at <= Len(Pages)
    /\ visual' = IF visual.at \in visual.shots
                 THEN [visual EXCEPT !.pc = "analyze"]
                 ELSE [visual EXCEPT !.at = @ + 1]
    /\ UNCHANGED <<tracker, runner, tester>>

\* One of the four analyze_image calls of lines 237-240; an exception that
\* leaves analyze_image ends the process with a traceback.
AnalyzeImage(outcome) ==
    /\ visual.pc = "analyze"
    /\ Len(visual.analyses) < Len(Analysis)
    /\ LET answer == analyze_image(outcome) IN
       visual' = IF answer.raised
                 THEN [visual EXCEPT !.pc = "raised", !.error = answer.value.issues[1].error,
                                     !.exit = <<1>>]
                 ELSE [visual EXCEPT !.analyses = Append(@, answer.value)]
    /\ UNCHANGED <<tracker, runner, tester>>

\* The rest of test_component, lines 242-277: the result is compiled and
\* appended, and the loop of run_all goes to the next page.
CompileResult ==
    /\ visual.pc = "analyze"
    /\ Len(visual.analyses) = Len(Analysis)
    /\ visual' = [visual EXCEPT !.pc = "run_all", !.at = @ + 1, !.analyses = <<>>,
                                !.results = Append(@, Compiled(Pages[visual.at],
                                                               visual.analyses))]
    /\ UNCHANGED <<tracker, runner, tester>>

\* The end of run_all, lines 458-471: the report and results-ai.json are
\* written from self.results, and the script ends.
GenerateReport ==
    /\ visual.pc = "run_all"
    /\ visual.at > Len(Pages)
    /\ visual' = [visual EXCEPT
           !.pc = "done", !.exit = <<0>>,
           !.report = <<[total  |-> Len(visual.results),
                         passed |-> Cardinality({i \in DOMAIN visual.results :
                                                    visual.results[i].passed}),
                         components |-> [i \in DOMAIN visual.results |->
                                            visual.results[i].component]]>>]
    /\ UNCHANGED <<tracker, runner, tester>>

\* test_visual_single.py, main, lines 13-48.  The class has no method
\* run_all_tests, so line 48 raises AttributeError; line 43 has set an
\* attribute of the instance.
SingleMain(argv, api_key) ==
    /\ visual.pc = "idle"
    /\ LET component == IF argv # <<>> /\ argv[Len(argv)] # ".html"
                        THEN Append(argv, ".html") ELSE argv IN
       visual' =
         IF argv = <<>> \/ ~api_key
         THEN [visual EXCEPT !.pc = "exited", !.script = "test_visual_single.py",
                             !.argv = argv, !.api_key = api_key, !.exit = <<1>>]
         ELSE [visual EXCEPT !.pc = "raised", !.script = "test_visual_single.py",
                             !.argv = argv, !.api_key = api_key, !.attribute = <<component>>,
                             !.error = "AttributeError", !.exit = <<1>>]
    /\ UNCHANGED <<tracker, runner, tester>>

\* ------------------------------------------------------- test_structure.py
\* An element of the page.  An attribute is <<>> when the element does not
\* have it and <<value>> when it does; box is <<>> for an element that is
\* not rendered.
Element(tag, id, aria_label) ==
    [tag |-> tag, id |-> id, aria_label |-> aria_label, inner_text |-> "",
     href |-> <<>>, role |-> <<>>, alt |-> <<>>, src |-> <<>>, box |-> <<>>,
     aria_modal |-> <<>>]

\* Python's truth value of what get_attribute returns: None and '' are false.
Truthy(attribute) == attribute # <<>> /\ attribute[1] # ""

\* el.tagName of a heading, as its characters.
tagName == [h1 |-> <<"H", "1">>, h2 |-> <<"H", "2">>, h3 |-> <<"H", "3">>,
            h4 |-> <<"H", "4">>, h5 |-> <<"H", "5">>, h6 |-> <<"H", "6">>]

\* int() of a digit.
int == [d \in {"1", "2", "3", "4", "5", "6"} |->
           CASE d = "1" -> 1 [] d = "2" -> 2 [] d = "3" -> 3
             [] d = "4" -> 4 [] d = "5" -> 5 [] OTHER -> 6]

RECURSIVE Concat(_)
\* The issues of a loop: what each iteration appended, in order.
Concat(parts) == IF parts = <<>> THEN <<>> ELSE Head(parts) \o Concat(Tail(parts))

\* Test 1, lines 38-49.  page.locator(selector).all() gives the matching
\* elements in document order.
MissingAria(page) ==
    LET IsInteractive(el) ==
            \/ el.tag \in {"button", "input"}
            \/ el.tag = "a" /\ el.href # <<>>
            \/ el.role \in {<<"button">>, <<"link">>}
        interactive == SelectSeq(page.elements, IsInteractive) IN
    Concat([i \in DOMAIN interactive |->
        IF ~Truthy(interactive[i].aria_label) /\ interactive[i].inner_text = ""
        THEN <<[type |-> "missing_aria", element |-> interactive[i].tag,
                severity |-> "error"]>>
        ELSE <<>>])

\* Test 2, lines 51-61.
MissingAlt(page) ==
    LET IsImage(el) == el.tag = "img"
        images == SelectSeq(page.elements, IsImage) IN
    Concat([i \in DOMAIN images |->
        IF images[i].alt = <<>>
        THEN <<[type |-> "missing_alt", element |-> "img", src |-> images[i].src,
                severity |-> "error"]>>
        ELSE <<>>])

\* Test 3, lines 63-76: an element is checked only when its id is truthy.
MissingLabel(page) ==
    LET IsInput(el) == el.tag \in {"input", "textarea", "select"}
        inputs == SelectSeq(page.elements, IsInput) IN
    Concat([i \in DOMAIN inputs |->
        IF /\ Truthy(inputs[i].id)
           /\ inputs[i].id[1] \notin page.labels
           /\ ~Truthy(inputs[i].aria_label)
        THEN <<[type |-> "missing_label", element |-> inputs[i].tag,
                severity |-> "error"]>>
        ELSE <<>>])

\* A test that reports every rise of the level.
Skips_AnyRise(prev_level, level) == prev_level > 0 /\ level - prev_level > 0

\* Line 84.
Skips(prev_level, level) == prev_level > 0 /\ level - prev_level > 1

RECURSIVE HeadingLoop(_, _)
\* The loop of lines 81-92 over the headings left, prev_level being the
\* level of the heading before them.
HeadingLoop(headings, prev_level) ==
    IF headings = <<>> THEN <<>>
    ELSE LET level == int[tagName[Head(headings).tag][2]] IN
         (IF Skips(prev_level, level)
          THEN <<[type |-> "heading_skip", from |-> <<"h", prev_level>>,
                  to |-> <<"h", level>>, severity |-> "warning"]>>
          ELSE <<>>) \o HeadingLoop(Tail(headings), level)

\* Test 4, lines 78-92.
HeadingSkip(page) ==
    LET IsHeading(el) == el.tag \in DOMAIN tagName IN
    HeadingLoop(SelectSeq(page.elements, IsHeading), 0)

\* Test 5, lines 94-105.
SmallTouchTarget(page) ==
    LET IsButton(el) == el.tag = "button" \/ el.role = <<"button">>
        buttons == SelectSeq(page.elements, IsButton) IN
    Concat([i \in DOMAIN buttons |->
        IF buttons[i].box # <<>>
           /\ (buttons[i].box[1].width < 44 \/ buttons[i].box[1].height < 44)
        THEN <<[type |-> "small_touch_target", element |-> "button",
                size |-> <<buttons[i].box[1].width, "x", buttons[i].box[1].height>>,
                severity |-> "error"]>>
        ELSE <<>>])

\* Test 6, lines 107-116.
ModalMissingAria(page) ==
    LET IsDialog(el) == el.role = <<"dialog">>
        modals == SelectSeq(page.elements, IsDialog) IN
    Concat([i \in DOMAIN modals |->
        IF modals[i].aria_modal # <<"true">>
        THEN <<[type |-> "modal_missing_aria", element |-> "dialog",
                severity |-> "error"]>>
        ELSE <<>>])

\* StructuralTester.test_component, lines 30-123, of the loaded page.
test_component(page, component_name) ==
    LET issues == MissingAria(page) \o MissingAlt(page) \o MissingLabel(page)
                    \o HeadingSkip(page) \o SmallTouchTarget(page)
                    \o ModalMissingAria(page) IN
    [component |-> component_name, passed |-> Len(issues) = 0,
     issues |-> issues, issue_count |-> Len(issues)]

\* One call of test_component by run_all_tests, line 137.
StructureTest(component) ==
    /\ tester.result = <<>>
    /\ tester' = [tester EXCEPT !.result = <<test_component(tester.page, component)>>]
    /\ UNCHANGED <<tracker, runner, visual>>

\* --------------------------------------------------------- specifications
Call(p) ==
    \/ \E c \in Component : NeedsTesting(p, c)
    \/ \E c \in Component, passed \in BOOLEAN, n \in IssueArg : RecordTestResult(p, c, passed, n)

\* One caller process whose calls complete before anything else happens.
Next == Call(Caller) \/ FileEnv \/ ClockEnv

Spec == Init /\ [][Next]_vars

\* The four functions of the module called by one caller, each call
\* complete before the next event, with file changes in between.
NextApi ==
    \/ Call(Caller)
    \/ \E c \in Component : GetTestStatus(Caller, c)
    \/ \E ok \in BOOLEAN : ListAllStatus(Caller, ok)
    \/ FileEnv

SpecApi == Init /\ [][NextApi]_vars

\* The two main calls with the files and the clock changing in between;
\* every test recorded passed without issues.
NextFrame ==
    \/ \E c \in Component : NeedsTesting(Caller, c)
    \/ \E c \in Component : RecordTestResult(Caller, c, TRUE, 0)
    \/ FileEnv
    \/ ClockEnv

SpecFrame == Init /\ [][NextFrame]_vars

\* Results are recorded and read back while other programs write, remove
\* and change the mode of the fixture files.
NextFail ==
    \/ \E c \in Component, passed \in BOOLEAN : RecordTestResult(Caller, c, passed, 0)
    \/ \E c \in Component : GetTestStatus(Caller, c)
    \/ FileEnv
    \/ \E c \in Component : Chmod(c)

SpecFail == Init /\ [][NextFail]_vars

\* Two processes record results, their table operations interleaved.
Recording(p) ==
    \/ \E c \in Component, passed \in BOOLEAN : RecordCall(p, c, passed, 0)
    \/ RecordQuery(p)
    \/ RecordDelete(p)
    \/ RecordInsert(p)

NextRace == \E p \in Procs : Recording(p)

SpecRace == Init /\ [][NextRace]_vars

\* The command line: results are recorded, and --list and <component>
\* are run.
NextCli ==
    \/ \E ok \in BOOLEAN : CliList(Caller, ok)
    \/ \E c \in Component : CliComponent(Caller, c)
    \/ \E c \in Component, passed \in BOOLEAN, n \in IssueArg :
          RecordTestResult(Caller, c, passed, n)
    \/ FileEnv

SpecCli == Init /\ [][NextCli]_vars

\* The commands and calls run on a table that other programs edit.
NextEdit ==
    \/ \E ok \in BOOLEAN : CliList(Caller, ok)
    \/ \E c \in Component : CliComponent(Caller, c)
    \/ \E c \in Component : NeedsTesting(Caller, c)
    \/ \E c \in Component, passed \in BOOLEAN, n \in IssueArg :
          RecordTestResult(Caller, c, passed, n)
    \/ \E i \in 1..Cardinality(Component), cell \in {"True", ""} : EditRow(i, cell)
    \/ FileEnv

SpecEdit == Init /\ [][NextEdit]_vars

\* The caller's loop: ask, run the test, record.
Loop(p) ==
    \/ \E c \in Component : FlowAsk(p, c)
    \/ FlowTest(p)
    \/ \E passed \in BOOLEAN, n \in IssueArg : FlowRecord(p, passed, n)

NextFlow == Loop(Caller) \/ FileEnv

SpecFlow == Init /\ [][NextFlow]_vars

\* The caller's calls one library call or file access at a time; a second
\* process looks at the table in between.
Steps(p) ==
    \/ \E c \in Component : NeedsTestingCall(p, c)
    \/ NeedsTestingHash(p)
    \/ NeedsTestingQuery(p)
    \/ \E c \in Component, passed \in BOOLEAN, n \in IssueArg : RecordCall(p, c, passed, n)
    \/ RecordQuery(p)
    \/ RecordDelete(p)
    \/ RecordInsert(p)
    \/ Kill(p)

NextSteps ==
    \/ Steps(Caller)
    \/ \E c \in Component : NeedsTesting(Observer, c)
    \/ FileEnv

SpecSteps == Init /\ [][NextSteps]_vars

\* The calls by steps while other programs write, remove and change the
\* mode of the fixture files; every test recorded passed without issues.
NextIO ==
    \/ \E c \in Component : NeedsTestingCall(Caller, c)
    \/ NeedsTestingHash(Caller)
    \/ NeedsTestingQuery(Caller)
    \/ \E c \in Component : RecordCall(Caller, c, TRUE, 0)
    \/ RecordQuery(Caller)
    \/ RecordDelete(Caller)
    \/ RecordInsert(Caller)
    \/ FileEnv
    \/ \E c \in Component : Chmod(c)

SpecIO == Init /\ [][NextIO]_vars

\* One run of test_all.py with any flags and any outcomes of the suites.
NextRunner ==
    \/ \E args \in SUBSET Flag : Launch(args)
    \/ RunTestStart
    \/ \E returncode \in 0..MaxReturnCode : RunTestEnd(returncode)
    \/ PrintSummary
    \/ Exit

InitRunner ==
    /\ Init
    /\ files = [c \in Component |-> NoFile]
    /\ clock = 0

SpecRunner == InitRunner /\ [][NextRunner]_vars

\* The same run when the interpreter keeps executing and every suite's
\* process ends (subprocess.run returns).
SpecRunnerFair ==
    /\ SpecRunner
    /\ WF_vars(RunTestStart)
    /\ WF_vars(\E returncode \in 0..MaxReturnCode : RunTestEnd(returncode))
    /\ WF_vars(PrintSummary)
    /\ WF_vars(Exit)

\* The vision tests: both scripts, every set of screenshots, and answers
\* of the API that pass, fail to arrive or fail to parse.
InitVisual == InitRunner

SingleArgv == {<<>>} \cup {<<Pages[k][1]>> : k \in DOMAIN Pages} \cup {Pages[k] : k \in DOMAIN Pages}

NextVisual ==
    \/ \E shots \in SUBSET DOMAIN Pages : VisualMain(shots)
    \/ \E argv \in SingleArgv, api_key \in BOOLEAN : SingleMain(argv, api_key)
    \/ TestComponent
    \/ \E outcome \in {"passed_true", "api_error", "not_json", "image_unreadable"} :
          AnalyzeImage(outcome)
    \/ CompileResult
    \/ GenerateReport

SpecVisual == InitVisual /\ [][NextVisual]_vars

\* One component with a screenshot, and every answer of the API.
NextComponent ==
    \/ \E page \in DOMAIN Pages : VisualMain({page})
    \/ TestComponent
    \/ \E outcome \in DOMAIN ResponseText \cup {"api_error"} : AnalyzeImage(outcome)
    \/ CompileResult
    \/ GenerateReport

SpecComponent == InitVisual /\ [][NextComponent]_vars

RECURSIVE SeqsUpTo(_, _)
\* The sequences over S of length at most n.
SeqsUpTo(S, n) ==
    IF n = 0 THEN {<<>>}
    ELSE LET shorter == SeqsUpTo(S, n - 1) IN
         shorter \cup {Append(q, x) : q \in shorter, x \in S}

\* The structural tests of a page of form elements with and without an
\* id, an aria-label and a label naming the id.
FormElements ==
    {Element(tag, id, aria_label) :
        tag \in {"input", "textarea", "select"},
        id \in {<<>>, <<"">>, <<"a">>},
        aria_label \in {<<>>, <<"">>, <<"Name">>}}

\* The state in which the browser has loaded a page and nothing else has
\* been started.
Loaded(page) ==
    /\ tester = [NoTester EXCEPT !.page = page]
    /\ runner = NoRunner
    /\ visual = NoVisual
    /\ files  = [c \in Component |-> NoFile]
    /\ store  = <<>>
    /\ clock  = 0
    /\ pc     = [p \in Procs |-> "idle"]
    /\ loc    = [p \in Procs |-> NoLoc]
    /\ ret    = NoRet
    /\ stable = [p \in Procs |-> FALSE]
    /\ fresh  = [c \in Component |-> FALSE]
    /\ flow   = [p \in Procs |-> NoFlow]

InitLabels ==
    \E elements \in SeqsUpTo(FormElements, MaxInputs), labels \in SUBSET {"a"} :
        Loaded([elements |-> elements, labels |-> labels])

NextStructure == \E k \in DOMAIN Pages : StructureTest(Pages[k])

SpecLabels == InitLabels /\ [][NextStructure]_vars

\* The structural tests of a page of headings, with labelled text areas
\* between them.
Headings == {Element(tag, <<>>, <<>>) : tag \in DOMAIN tagName}
                \cup {Element("textarea", <<>>, <<"Notes">>)}

InitHeadings ==
    \E elements \in SeqsUpTo(Headings, MaxHeadings) :
        Loaded([elements |-> elements, labels |-> {}])

SpecHeadings == InitHeadings /\ [][NextStructure]_vars

\* ------------------------------------------------------------------ claims
\* C1: with a single caller the table never holds two rows for one
\* component, and a record call that returned leaves exactly one row for
\* its component (so also when it recorded the same result again).
C1_OneRecordPerComponent ==
    /\ \A c \in Component : Count(c) <= 1
    /\ (ret.op = "record_test_result" /\ ret.kind = "value") => Count(ret.comp) = 1

\* A record call has just written, for the second time in a row, the same
\* result for a component.
C1_Witness ==
    /\ ret.op = "record_test_result" /\ ret.kind = "value"
    /\ ret.note = "same"
    /\ Count(ret.comp) = 1

\* C2: while a component's file is as the last successful record call read
\* it, needs_testing returns (False, "unchanged since <last_tested of the
\* stored row>"), whatever was done to the other component.
C2_UnchangedAfterRecord ==
    (ret.op = "needs_testing" /\ fresh[ret.comp]) =>
        /\ Count(ret.comp) = 1
        /\ ret.val = <<FALSE, <<"unchanged since ", query_one(store, ret.comp)[1].last_tested>>>>

\* needs_testing has just answered for an unmodified component, at a time
\* that is not the time of its record and with the other component recorded
\* and modified since.
C2_Witness ==
    /\ ret.op = "needs_testing" /\ fresh[ret.comp]
    /\ clock # query_one(store, ret.comp)[1].last_tested
    /\ \E d \in Component \ {ret.comp} : Count(d) = 1 /\ ~fresh[d]

\* C3: when a component has a row and its file exists with a digest other
\* than the stored one, needs_testing returns (True, "file changed ...").
C3_ChangeDetected ==
    (/\ ret.op = "needs_testing"
     /\ files[ret.comp] # NoFile
     /\ Count(ret.comp) > 0
     /\ Digest(files[ret.comp]) # query_one(store, ret.comp)[1].file_hash) =>
        /\ ret.kind = "value"
        /\ ret.val[1] = TRUE
        /\ ret.val[2][1] = "file changed (was "

\* needs_testing has just answered for a recorded component whose file was
\* changed to other bytes afterwards.
C3_Witness ==
    /\ ret.op = "needs_testing"
    /\ files[ret.comp] # NoFile
    /\ Count(ret.comp) > 0
    /\ ~fresh[ret.comp]
    /\ Digest(files[ret.comp]) # query_one(store, ret.comp)[1].file_hash

\* C4: for a component whose file exists and that has no row, needs_testing
\* returns exactly (True, "never tested"), whatever rows the table holds.
C4_NeverTested ==
    (ret.op = "needs_testing" /\ files[ret.comp] # NoFile /\ Count(ret.comp) = 0) =>
        ret.val = <<TRUE, <<"never tested">>>>

\* needs_testing has just answered for an unrecorded component while the
\* table holds a row of the other component.
C4_Witness ==
    /\ ret.op = "needs_testing" /\ files[ret.comp] # NoFile /\ Count(ret.comp) = 0
    /\ store # <<>>

\* C5: for a component whose file does not exist needs_testing returns
\* (False, "file not found") and does not raise, with or without a row.
C5_FileNotFound ==
    (ret.op = "needs_testing" /\ files[ret.comp] = NoFile) =>
        /\ ret.kind = "value"
        /\ ret.val = <<FALSE, <<"file not found">>>>

\* needs_testing has just answered for a component whose file was removed
\* after a result was recorded for it.
C5_Witness ==
    /\ ret.op = "needs_testing" /\ files[ret.comp] = NoFile
    /\ Count(ret.comp) = 1

\* C6: a component that had a row when a record call began has a row in
\* every state of the call, so neither another process nor a kill of the
\* caller can find the table without it.
C6_UpsertAtomic ==
    \A p \in Procs :
        (pc[p] \in {"rec_delete", "rec_insert"} /\ loc[p].existing # None) =>
            Count(loc[p].component) >= 1

\* C7: a record call that replaces a row writes a last_tested greater than
\* the one it replaces.
C7_LastTestedIncreases ==
    [][(/\ ret'.op = "record_test_result" /\ ret'.kind = "value"
        /\ Count(ret'.comp) > 0) =>
            query_one(store', ret'.comp)[1].last_tested
                > query_one(store, ret'.comp)[1].last_tested]_vars

\* C8: in the loop ask, test, record, the file_hash of the row written is
\* the digest of the bytes the test run examined.
C8_HashOfTestedBytes ==
    (/\ ret.op = "record_test_result" /\ ret.kind = "value"
     /\ flow[ret.proc].phase = "recorded") =>
        query_one(store, ret.comp)[1].file_hash = Digest(flow[ret.proc].bytes)

\* C9: needs_testing answers "unchanged" exactly when the stored and the
\* current digest agree in every character; digests that differ anywhere,
\* also past their first PrefixLen characters, give (True, "file changed
\* (was <first 8 of stored>..., now <first 8 of current>...)").
C9_FullDigestCompared ==
    (ret.op = "needs_testing" /\ files[ret.comp] # NoFile /\ Count(ret.comp) > 0) =>
        LET h == query_one(store, ret.comp)[1].file_hash
            d == Digest(files[ret.comp]) IN
        /\ (ret.val[2][1] = "unchanged since ") <=> (\A i \in 1..HexLen : d[i] = h[i])
        /\ (\E i \in 1..HexLen : d[i] # h[i]) =>
              ret.val = <<TRUE, <<"file changed (was ", SubSeq(h, 1, PrefixLen),
                                  "..., now ", SubSeq(d, 1, PrefixLen), "...)">>>>

\* needs_testing has just answered for a component whose stored and current
\* digests share their first PrefixLen characters and differ after them.
C9_Witness ==
    /\ ret.op = "needs_testing" /\ files[ret.comp] # NoFile /\ Count(ret.comp) > 0
    /\ LET h == query_one(store, ret.comp)[1].file_hash
           d == Digest(files[ret.comp]) IN
       /\ SubSeq(h, 1, PrefixLen) = SubSeq(d, 1, PrefixLen)
       /\ h # d

\* C10: when reading the table fails, the --list command does not end with
\* exit code 0.
C10_ReadFailureSurfaces ==
    (ret.op = "cli_list" /\ ret.note = "store_read_failed") =>
        (ret.kind = "raised" \/ ret.val.exit # 0)

\* C11: a failure of get_file_hash is neither suppressed nor retried.  When
\* needs_testing reaches line 34 and the file cannot be opened (it is there
\* but unreadable, or it was removed after the existence check), the call
\* ends with the error open() raised and returns no decision; when
\* record_test_result is called for a missing or unreadable file it ends
\* with that error, returns no success and leaves the table as it was.
C11_HashFailurePropagates ==
    [][\A p \in Procs :
         /\ (NeedsTestingHash(p) /\ ~Readable(loc[p].component)) =>
               /\ ret' = Raised(p, "needs_testing", loc[p].component,
                                OpenError(loc[p].component))
               /\ pc'[p] = "idle"
               /\ store' = store
         /\ \A c \in Component, passed \in BOOLEAN, n \in IssueArg :
               (RecordCall(p, c, passed, n) /\ ~Readable(c)) =>
                 /\ ret' = Raised(p, "record_test_result", c, OpenError(c))
                 /\ pc'[p] = "idle"
                 /\ store' = store]_vars

\* needs_testing found the file, which was removed before line 34 opened
\* it: the call ended with FileNotFoundError.
C11_Witness ==
    /\ ret.op = "needs_testing"
    /\ ret.kind = "raised"
    /\ ret.val = <<"FileNotFoundError">>
    /\ ~Exists(ret.comp)

\* C12: a command that determined its answer exits with code 0.  The
\* <component> command prints the answer of needs_testing, whichever of
\* "file not found", "never tested", "file changed" and "unchanged" it is,
\* and exits 0 whether the answer is to test or not; --list exits 0 for an
\* empty and for a non-empty table.
C12_ExitZeroOnAnswer ==
    /\ (ret.op = "cli_component" /\ ret.note = "none") =>
          LET answer == needs_testing(ret.comp) IN
          /\ ret.val.exit = 0
          /\ ret.val.out[1] = <<IF answer[1] THEN "needs testing"
                                ELSE "does not need testing", ret.comp, answer[2]>>
    /\ (ret.op = "cli_list" /\ ret.note = "none") =>
          /\ ret.val.exit = 0
          /\ (store = <<>>) <=> (ret.val.out = <<<<"No components tested yet.">>>>)

\* The <component> command answered "needs testing: file changed" and
\* exited with 0.
C12_Witness ==
    /\ ret.op = "cli_component"
    /\ ret.note = "none"
    /\ ret.val.exit = 0
    /\ ret.val.out[1][1] = "needs testing"
    /\ ret.val.out[1][3][1] = "file changed (was "

\* C13: read your writes.  In the state record_test_result(c, passed, n)
\* returns in, get_test_status(c) is the one row for c with component c,
\* the digest of c's file as it is, "true" or "false" for passed, the
\* decimal string of n and the timestamp taken by this call, whatever the
\* row before held; get_test_status called while that state lasts returns
\* a row for c with that digest; and get_test_status of a component with no
\* row returns None and does not raise.
C13_ReadYourWrites ==
    [][/\ \A c \in Component, passed \in BOOLEAN, n \in IssueArg :
            (RecordTestResult(Caller, c, passed, n) /\ ret'.kind = "value") =>
               /\ Count(c)' = 1
               /\ get_test_status(c)' =
                     <<[component    |-> c,
                        file_hash    |-> Digest(files'[c]),
                        last_tested  |-> clock,
                        passed       |-> IF passed THEN "true" ELSE "false",
                        issues_count |-> Str(n)]>>
       /\ \A c \in Component :
            GetTestStatus(Caller, c) =>
               /\ ret'.kind = "value"
               /\ Count(c) = 0 => ret'.val = None
               /\ fresh[c] => /\ ret'.val # None
                              /\ ret'.val[1].component = c
                              /\ ret'.val[1].file_hash = Digest(files[c])]_vars

\* get_test_status returned the failed result recorded for a file that has
\* not changed since.
C13_Witness ==
    /\ ret.op = "get_test_status"
    /\ fresh[ret.comp]
    /\ ret.val # None
    /\ ret.val[1].passed = "false"
    /\ ret.val[1].file_hash = Digest(files[ret.comp])

\* C14: an operation on one component leaves every other component alone.
\* Whenever needs_testing(F) or record_test_result(F, ...) runs, or F's
\* file is written or removed, the rows of every other component G are
\* the same after as before, and so is the answer of needs_testing(G).
C14_OtherComponentsUntouched ==
    [][\A F \in Component : \A G \in Component \ {F} :
         (\/ NeedsTesting(Caller, F)
          \/ \E passed \in BOOLEAN, n \in IssueArg : RecordTestResult(Caller, F, passed, n)
          \/ \E b \in Content : WriteFile(F, b)
          \/ DeleteFile(F))
         => /\ Matching(store, G)' = Matching(store, G)
            /\ needs_testing(G)' = needs_testing(G)]_vars

\* A record call has just replaced the row of its component while another
\* component has a row for a file that is there.
C14_Witness ==
    /\ ret.op = "record_test_result" /\ ret.kind = "value"
    /\ ret.note = "other"
    /\ \E G \in Component \ {ret.comp} : Count(G) = 1 /\ Exists(G)

\* C15: only record_test_result changes the table.  A call of
\* needs_testing, get_test_status or list_all_status leaves the table as
\* it was, so does a file being written or removed, and every step that
\* changes the table is a record_test_result call that returned.
C15_OnlyRecordWrites ==
    [][/\ \A c \in Component :
            (\/ NeedsTesting(Caller, c)
             \/ GetTestStatus(Caller, c)
             \/ \E b \in Content : WriteFile(c, b)
             \/ DeleteFile(c))
            => store' = store
       /\ (\E ok \in BOOLEAN : ListAllStatus(Caller, ok)) => store' = store
       /\ store' # store =>
            \E c \in Component, passed \in BOOLEAN, n \in IssueArg :
               RecordTestResult(Caller, c, passed, n) /\ ret'.kind = "value"]_vars

\* list_all_status returned the rows, among them the row of a component
\* whose file has been removed since it was recorded.
C15_Witness ==
    /\ ret.op = "list_all_status"
    /\ ret.note = "none"
    /\ ret.val = store
    /\ \E c \in Component : ~Exists(c) /\ Count(c) = 1

\* C16: --list prints one line per stored row, so one line for each
\* component that has been recorded and none for any other; right after
\* record_test_result(c, passed, n) the line of c shows the pass glyph
\* exactly if passed, with the decimal string of n and the timestamp of
\* that call, and the line of c stays as it is until c is recorded again.
C16_ListShowsLastResults ==
    [][LET RecordLines(out) == SelectSeq(out, LAMBDA l : Len(l) = 4)
           LinesOf(out, c)  == SelectSeq(out, LAMBDA l : Len(l) = 4 /\ l[2] = c)
           Listing          == MainList(TRUE).out
           Recorded(c)      == \E passed \in BOOLEAN, n \in IssueArg :
                                  RecordTestResult(Caller, c, passed, n) /\ ret'.kind = "value"
       IN
       /\ CliList(Caller, TRUE) =>
            /\ Len(RecordLines(ret'.val.out)) = Len(store)
            /\ \A c \in Component :
                  /\ Len(LinesOf(ret'.val.out, c)) = IF Count(c) > 0 THEN 1 ELSE 0
                  /\ LinesOf(ret'.val.out, c) = LinesOf(Listing, c)
       /\ \A c \in Component, passed \in BOOLEAN, n \in IssueArg :
            (RecordTestResult(Caller, c, passed, n) /\ ret'.kind = "value") =>
               LinesOf(Listing, c)' =
                  <<<<IF passed THEN "pass" ELSE "fail", c, Str(n), clock>>>>
       /\ \A c \in Component :
            ~Recorded(c) => LinesOf(Listing, c)' = LinesOf(Listing, c)]_vars

\* --list printed two lines, a passed component and a failed one.
C16_Witness ==
    /\ ret.op = "cli_list"
    /\ ret.note = "none"
    /\ Len(ret.val.out) = 2
    /\ ret.val.out[1][1] = "pass"
    /\ ret.val.out[2][1] = "fail"
    /\ ret.val.out[1][2] # ret.val.out[2][2]

\* C17: a stored row whose passed value is neither "true" nor "false" is
\* surfaced as an error: --list with such a row in the table, and the
\* <component> command and needs_testing for the component of such a row,
\* end with an error and not with a displayed outcome or a decision.
C17_MalformedRecordSurfaced ==
    LET Malformed(r) == r.passed \notin {"true", "false"} IN
    /\ (/\ ret.op = "cli_list" /\ ret.note = "none"
        /\ \E i \in 1..Len(store) : Malformed(store[i]))
       => ret.val.exit # 0
    /\ (/\ ret.op = "cli_component" /\ ret.note = "none"
        /\ Count(ret.comp) > 0 /\ Malformed(query_one(store, ret.comp)[1]))
       => ret.val.exit # 0
    /\ (/\ ret.op = "needs_testing"
        /\ Exists(ret.comp)
        /\ Count(ret.comp) > 0 /\ Malformed(query_one(store, ret.comp)[1]))
       => ret.kind = "raised"

\* C18: for every combination of flags the suites run one at a time and
\* in the order of their tiers: never are two suites running, no suite
\* runs twice, the suites that have finished finished in tier order, and
\* a suite that is running belongs to a tier no lower than that of any
\* suite that has finished.
C18_TierOrder ==
    LET done == runner.results IN
    /\ Cardinality(runner.running) <= 1
    /\ \A i \in DOMAIN done : done[i].name \notin runner.running
    /\ \A i \in DOMAIN done : \A j \in DOMAIN done :
          i < j => /\ done[i].name # done[j].name
                   /\ TierOf[done[i].name] <= TierOf[done[j].name]
    /\ \A name \in runner.running : \A i \in DOMAIN done :
          TierOf[done[i].name] <= TierOf[name]

\* The spatial suite of tier 4 is running after the vision suite of tier 3
\* and all suites of tiers 1 and 2 have finished.
C18_Witness ==
    /\ runner.running = {"Spatial Context Tests (AR/VR)"}
    /\ Len(runner.results) = 8
    /\ runner.results[8].name = "Visual Accessibility Tests"

\* C19: with --fast among the arguments only the two tier-1 suites run,
\* whatever other flags are given: every suite that is running or has
\* finished is "Structural Tests" or "Integration Tests", and when the
\* runner exits both have run.
C19_FastRunsTierOneOnly ==
    LET ran == {runner.results[i].name : i \in DOMAIN runner.results} IN
    "--fast" \in runner.argv =>
        /\ ran \cup runner.running \subseteq {"Structural Tests", "Integration Tests"}
        /\ runner.pc = "exited" => ran = {"Structural Tests", "Integration Tests"}

\* C20: without --fast a run that has exited has run the two tier-1 and
\* the five tier-2 suites, the vision suite exactly if --skip-vision was
\* not given and the spatial suite exactly if --spatial was given, and
\* nothing else; so a run without flags has run every suite but the
\* spatial one.
C20_FlagsSelectSuites ==
    LET ran == {runner.results[i].name : i \in DOMAIN runner.results}
        always == {"Structural Tests", "Integration Tests",
                   "Voice Command Tests", "Context Tests (Mobile/Tablet/Desktop)",
                   "Gesture Tests", "Attention Budget Tests", "Performance Tests"}
    IN
    (runner.pc = "exited" /\ "--fast" \notin runner.argv) =>
        /\ always \subseteq ran
        /\ "Visual Accessibility Tests" \in ran <=> "--skip-vision" \notin runner.argv
        /\ "Spatial Context Tests (AR/VR)" \in ran <=> "--spatial" \in runner.argv
        /\ ran \subseteq always \cup {"Visual Accessibility Tests",
                                       "Spatial Context Tests (AR/VR)"}
        /\ Len(runner.results) = Cardinality(ran)
        /\ runner.argv = {} =>
              ran = always \cup {"Visual Accessibility Tests"}

\* A run with --skip-vision and --spatial has exited after eight suites,
\* the spatial suite among them and the vision suite not.
C20_Witness ==
    /\ runner.pc = "exited"
    /\ runner.argv = {"--skip-vision", "--spatial"}
    /\ Len(runner.results) = 8
    /\ runner.results[8].name = "Spatial Context Tests (AR/VR)"

\* C22: a run that has exited has exit code 0 exactly if every suite's
\* process returned 0, and exit code 1 otherwise; the summary counts as
\* passed the suites whose process returned 0 and as total the suites that
\* were run.
C22_ExitCodeAndSummary ==
    LET codes == runner.codes
        zero  == {i \in DOMAIN codes : codes[i] = 0} IN
    /\ runner.pc = "exited" =>
          /\ runner.exit \in {<<0>>, <<1>>}
          /\ runner.exit = <<0>> <=> zero = DOMAIN codes
    /\ runner.pc \in {"returned", "exited"} =>
          /\ runner.summary = <<Cardinality(zero), Len(codes)>>
          /\ Len(codes) = Len(runner.results)

\* A run in which an early suite failed and the last one passed has
\* exited with code 1.
C22_Witness ==
    /\ runner.pc = "exited"
    /\ runner.exit = <<1>>
    /\ runner.codes[1] # 0
    /\ runner.codes[Len(runner.codes)] = 0
    /\ runner.summary[1] = runner.summary[2] - 1

\* C23: record_test_result fails cleanly.  A call for a component whose
\* file is missing or unreadable raises, the table after the call is the
\* table before it, and get_test_status of the component returns after the
\* call what it returned before; a get_test_status call returns the row
\* the table holds.
C23_RecordFailsCleanly ==
    [][/\ \A c \in Component, passed \in BOOLEAN, n \in IssueArg :
            (RecordTestResult(Caller, c, passed, n) /\ ~Readable(c)) =>
               /\ ret' = Raised(Caller, "record_test_result", c, OpenError(c))
               /\ store' = store
               /\ get_test_status(c)' = get_test_status(c)
       /\ \A c \in Component :
            GetTestStatus(Caller, c) =>
               ret'.val = IF Count(c) = 0 THEN None ELSE <<Matching(store, c)[1]>>]_vars

\* A record call for a component whose file is there but unreadable has
\* just raised, and the row recorded before is still in the table.
C23_Witness ==
    /\ ret.op = "record_test_result"
    /\ ret.kind = "raised"
    /\ ret.val = <<"PermissionError">>
    /\ Count(ret.comp) = 1

\* C24: staleness depends on content only.  For a component with a row
\* and a file, needs_testing answers "unchanged since <last_tested>"
\* exactly if the digest of the file's bytes as they are is the stored
\* digest, and "file changed" otherwise, however often the file was
\* written or removed since the row was recorded.
C24_ContentOnly ==
    (/\ ret.op = "needs_testing"
     /\ Exists(ret.comp)
     /\ Count(ret.comp) > 0)
    => LET row == query_one(store, ret.comp)[1] IN
       /\ ret.kind = "value"
       /\ ret.val[1] = (Digest(files[ret.comp]) # row.file_hash)
       /\ Digest(files[ret.comp]) = row.file_hash =>
             ret.val = <<FALSE, <<"unchanged since ", row.last_tested>>>>

\* needs_testing has just answered "unchanged" for a file that was
\* written after its row was recorded and holds the recorded bytes again.
C24_Witness ==
    /\ ret.op = "needs_testing"
    /\ Exists(ret.comp)
    /\ Count(ret.comp) > 0
    /\ ~fresh[ret.comp]
    /\ Digest(files[ret.comp]) = query_one(store, ret.comp)[1].file_hash
    /\ ret.val[1] = FALSE

\* C25: when record_test_result calls of two processes interleave, the
\* table holds one row for a component once the calls have finished: in
\* no state in which every process is outside a call does a component
\* have two rows.
C25_OneRecordAfterRace ==
    (\A p \in Procs : pc[p] = "idle") => \A c \in Component : Count(c) <= 1

\* C26: the runner does not stop early.  Provided every suite's process
\* ends, a run that was started reaches its summary having run each suite
\* its flags select exactly once, whatever the suites returned.
C26_RunsEverySelectedSuite ==
    (runner.pc = "run_all" /\ runner.results = <<>>)
      ~> (/\ runner.pc = "returned"
          /\ runner.summary # <<>>
          /\ Len(runner.results) = Cardinality(Reached(1, runner.argv))
          /\ {runner.results[i].name : i \in DOMAIN runner.results}
                = {Suite[i] : i \in Reached(1, runner.argv)})

\* A run without flags whose first suite failed has printed its summary
\* after all eight suites.
C26_Witness ==
    /\ runner.pc = "returned"
    /\ runner.argv = {}
    /\ runner.codes[1] # 0
    /\ Len(runner.codes) = 8
    /\ runner.summary[2] = 8


C27_PassedIffAllFourPassed ==
    visual.script = "test_visual_ai.py" =>
        /\ \A i \in DOMAIN visual.results :
              /\ visual.results[i].passed <=>
                    \A k \in DOMAIN Analysis :
                        visual.results[i].tests[Analysis[k]].passed = <<TRUE>>
              /\ \E page \in visual.shots : Pages[page][1] = visual.results[i].component
              /\ \A j \in DOMAIN visual.results :
                    visual.results[j].component = visual.results[i].component => j = i
        /\ Len(visual.results) = Cardinality({page \in visual.shots : page < visual.at})

C27_Witness ==
    /\ visual.pc = "done"
    /\ Len(visual.results) = 1
    /\ Len(Pages) > 1
    /\ ~visual.results[1].passed
    /\ visual.results[1].tests["affordance"].passed = <<>>
    /\ \A k \in DOMAIN Analysis :
          Analysis[k] # "affordance" => visual.results[1].tests[Analysis[k]].passed = <<TRUE>>

\* C28: an API call or a JSON parse that fails inside analyze_image is
\* returned as a failed analysis with one error issue and raises nothing;
\* the component it belongs to fails, and when run_all is through, every
\* page with a screenshot has its result and the report is written.
C28_FailuresBecomeFailedAnalyses ==
    [][/\ \A outcome \in {"api_error", "not_json"} :
            AnalyzeImage(outcome) =>
                /\ visual'.pc = "analyze"
                /\ Len(visual'.analyses) = Len(visual.analyses) + 1
                /\ LET last == visual'.analyses[Len(visual'.analyses)] IN
                      /\ last.passed = <<FALSE>>
                      /\ Len(last.issues) = 1
                      /\ DOMAIN last.issues[1] = {"error"}
       /\ CompileResult =>
            ((\E k \in DOMAIN visual.analyses :
                   visual.analyses[k].issues # <<>>)
                => ~visual'.results[Len(visual'.results)].passed)
       /\ (visual.pc = "run_all" /\ visual.at > Len(Pages)) =>
            /\ visual'.pc = "done"
            /\ Len(visual'.results) = Cardinality(visual.shots)
            /\ visual'.report # <<>>
            /\ visual'.report[1].total = Cardinality(visual.shots)]_vars

C28_Witness ==
    /\ visual.pc = "done"
    /\ Len(visual.results) = Len(Pages)
    /\ visual.results[1].tests["contrast"] = Failure("APIError")
    /\ visual.results[1].tests["affordance"] = Failure("JSONDecodeError")
    /\ visual.results[2].passed
    /\ visual.report[1].total = Len(Pages)


\* C29: every input, textarea or select that has neither a label naming
\* its id nor an aria-label produces a missing_label issue and makes the
\* component fail, whether or not it has an id.
C29_UnlabelledInputsReported ==
    tester.result # <<>> =>
        LET elements  == tester.page.elements
            unlabelled == {i \in DOMAIN elements :
                /\ elements[i].tag \in {"input", "textarea", "select"}
                /\ ~\E id \in tester.page.labels : elements[i].id = <<id>>
                /\ elements[i].aria_label \in {<<>>, <<"">>}}
            reported == {k \in DOMAIN tester.result[1].issues :
                tester.result[1].issues[k].type = "missing_label"} IN
        /\ Cardinality(reported) = Cardinality(unlabelled)
        /\ unlabelled # {} => ~tester.result[1].passed

\* C30: a heading_skip issue is reported exactly for a heading whose level
\* exceeds the level of the heading just before it by more than one, never
\* for the first heading or an equal or lower level, so there are as many
\* such issues as such adjacent pairs.
C30_HeadingSkipPerAdjacentPair ==
    tester.result # <<>> =>
        LET levelOf  == [h1 |-> 1, h2 |-> 2, h3 |-> 3, h4 |-> 4, h5 |-> 5, h6 |-> 6]
            elements == SelectSeq(tester.page.elements,
                                  LAMBDA el : el.tag \in DOMAIN levelOf)
            pairs    == {i \in DOMAIN elements :
                            i > 1 /\ levelOf[elements[i].tag] > levelOf[elements[i - 1].tag] + 1}
            skips    == SelectSeq(tester.result[1].issues,
                                  LAMBDA issue : issue.type = "heading_skip") IN
        /\ Len(skips) = Cardinality(pairs)
        /\ \A k \in DOMAIN skips :
              LET i == CHOOSE i \in pairs : Cardinality({j \in pairs : j <= i}) = k IN
              /\ skips[k].from = <<"h", levelOf[elements[i - 1].tag]>>
              /\ skips[k].to = <<"h", levelOf[elements[i].tag]>>

C30_Witness ==
    /\ tester.result # <<>>
    /\ [i \in DOMAIN tester.page.elements |-> tester.page.elements[i].tag]
          = <<"h3", "textarea", "h5">>
    /\ tester.result[1].issues =
          <<[type |-> "heading_skip", from |-> <<"h", 3>>, to |-> <<"h", 5>>,
             severity |-> "warning"]>>

====
